---------------------------- MODULE Spec2Model ----------------------------
(***************************************************************************)
(* Model of babbel2anki.py: the paginated vocabulary collector, the dedup  *)
(* filter against the csv export, the media downloader and the csv writer. *)
(*                                                                         *)
(* Python strings are modelled as sequences of tokens (<<"(", "p", ")">>), *)
(* so that str.format is concatenation and str.replace is a filter.        *)
(* A JSON identifier is a record [py, repr]: its Python type and what      *)
(* str() makes of it.                                                      *)
(*                                                                         *)
(* The program is run again and again on the files it left; the dataset of *)
(* the service stays the same.  The event loop runs one coroutine step at  *)
(* a time; the worker threads of the executor interleave freely.  A        *)
(* worker's answer is drawn when its coroutine resumes.  A failure of the  *)
(* local open or write of a media file is not modelled, and a worker still *)
(* running when an exception ends the run is not followed further.         *)
(***************************************************************************)
EXTENDS Integers, Sequences, FiniteSets, TLC

\* ------------------------------------------------------------------ bounds
MaxItems == 3          \* largest remote dataset (entries)

\* --------------------------------------------------------------- settings
csv_fieldnames == << "id", "type", "image_id", "image_path", "sound_id",
                     "audio_path", "l1_text", "l2_text", "info_text" >>

MediaTypes == << "image", "audio" >>

media_urls(media_type, media_id) ==
    IF media_type = "image"
    THEN << "https://d3hmols351pw2y.cloudfront.net/image/400x400/" >> \o media_id \o << ".jpg" >>
    ELSE << "https://d3hmols351pw2y.cloudfront.net/sound/" >> \o media_id \o << ".mp3" >>

media_filenames(media_type, media_id) ==
    IF media_type = "image"
    THEN << "rus_" >> \o media_id \o << ".jpg" >>
    ELSE << "rus_" >> \o media_id \o << ".mp3" >>

media_entries(media_type, filename) ==
    IF media_type = "image"
    THEN << "<img src=\"" >> \o filename \o << "\">" >>
    ELSE << "[sound:" >> \o filename \o << "]" >>

media_id_fields(media_type) == IF media_type = "image" THEN "image_id" ELSE "sound_id"

media_csv_fields(media_type) == IF media_type = "image" THEN "image_path" ELSE "audio_path"

\* The members the schema requires of the review object.
schema_required == { "trainer_items", "total_filtered_items", "per_page_limit", "page" }

\* jsonschema.validate(response, schema): the root is an object whose review
\* property, WHEN PRESENT, must carry the required members (the root itself
\* lists no required member).  Member types are right in every modelled
\* response, so only presence is decided here.
SchemaValid(response) ==
    ("review" \in DOMAIN response) => (schema_required \subseteq DOMAIN response.review)

\* ----------------------------------------------------------- the remote
IntId(s) == [py |-> "int", repr |-> << s >>]
StrId(s) == [py |-> "str", repr |-> << s >>]

\* str(vocab_item["id"]); also what csv.writer puts in the cell.
Str(v) == v.repr

\* The trainer items the service can hold.  Between them: an integer and a
\* string identifier, a field outside the csv columns, absent columns
\* (type, info_text, l2_text), parentheses in l2_text, a media id shared by
\* two items and by the two media types.
Item1 == [id |-> IntId("1"), type |-> << "word" >>, image_id |-> << "a" >>,
          sound_id |-> << "a" >>, l1_text |-> << "hello" >>,
          l2_text |-> << "(", "p", ")" >>, info_text |-> << >>,
          display_language |-> << "en" >>]
Item2 == [id |-> StrId("2"), image_id |-> << "a" >>, sound_id |-> << "b" >>,
          l1_text |-> << "bye" >>, l2_text |-> << "q" >>]
Item3 == [id |-> IntId("3"), type |-> << "phrase" >>, image_id |-> << "b" >>,
          sound_id |-> << "c" >>, l1_text |-> << "yes" >>,
          l2_text |-> << "r", ")", "s" >>, info_text |-> << "note" >>]
Item4 == [id |-> StrId("4"), type |-> << "word" >>, image_id |-> << "c" >>,
          sound_id |-> << "b" >>, l1_text |-> << "no" >>, info_text |-> << >>]

PerPageLimits == { 1, 2 }

MediaIds == { << "a" >>, << "b" >>, << "c" >> }

MediaFiles == { media_filenames(t, m) : t \in { "image", "audio" }, m \in MediaIds }

Range(s) == { s[i] : i \in DOMAIN s }

Min(a, b) == IF a < b THEN a ELSE b

\* The items of the service, in the order it lists them.
Catalogue == << Item1, Item2, Item3, Item4 >>

\* The datasets of the service: the first n items of the catalogue, and two
\* short ones that start with the item that has no l2_text.
Datasets ==
    { SubSeq(Catalogue, 1, n) : n \in 0 .. Min(MaxItems, Len(Catalogue)) }
    \cup { << Item4 >>, << Item4, Item1 >> }

PageNumbers == 1 .. MaxItems

\* ------------------------------------------------------------------ state
VARIABLES
    remote,        \* the service's trainer items, unchanged over the runs
    limit,         \* the service's per_page_limit
    pc,            \* where the control flow of __main__ is
    search_page,   \* search_params["page"], 0 for None
    ptask,         \* per page number: the page coroutine and its worker thread
    num_pages,     \* num_pages of get_babbel_vocabulary
    fetched,       \* the list the collector returned to __main__
    vocabulary,    \* the vocabulary list being built, filtered and written
    kind,          \* index in MediaTypes of the batch of download_media
    mtask,         \* per vocabulary item: the download_media_item coroutine
    csv_exists,    \* whether csv_filename exists
    csv_rows,      \* the rows of csv_filename
    disk,          \* media_directory: per file name, [exists, data]
    err,           \* the uncaught exception that ended the run: [in, type]
    csv_start,     \* csv_rows and csv_exists when the run started
    disk_start,    \* disk when the run started
    wrote,         \* the rows this run appended to the csv file
    gets,          \* how many media GETs this run was answered
    prev_done      \* whether the previous run ran to completion

vars == << remote, limit, pc, search_page, ptask, num_pages, fetched,
           vocabulary, kind, mtask, csv_exists, csv_rows, disk, err,
           csv_start, disk_start, wrote, gets, prev_done >>

\* ------------------------------------------------- the vocabulary service
\* The items the service holds on page q.
PageItems(q) == SubSeq(remote, (q - 1) * limit + 1, Min(q * limit, Len(remote)))

\* What one GET can bring back: the conforming envelope, an envelope
\* without total_filtered_items, an object without a review member.
ResponseKinds == { "ok", "no_total", "no_review" }

\* The service fails, and not every time, for the queries of these pages
\* only.
FailingPages == { 1, 2 }

Response(k, q) ==
    CASE k = "ok" ->
           [review |-> [trainer_items |-> PageItems(q),
                        total_filtered_items |-> Len(remote),
                        per_page_limit |-> limit, page |-> q]]
      [] k = "no_total" ->
           [review |-> [trainer_items |-> PageItems(q),
                        per_page_limit |-> limit, page |-> q]]
      [] OTHER -> [error |-> << "unauthorized" >>]

NoResponse == [pending |-> TRUE]

\* math.ceil(total_filtered_items / per_page_limit)
Ceil(a, b) == IF a % b = 0 THEN a \div b ELSE (a \div b) + 1

\* range(2, num_pages)
LaterPages_OffByOne(n) == 2 .. (n - 1)

\* range(2, num_pages + 1)
LaterPages(n) == 2 .. n

IdlePage == [st |-> "none", param |-> 0, raised |-> FALSE, resp |-> NoResponse,
             err |-> "none"]

\* The body of get_babbel_vocabulary_page once the worker's future resolves:
\* the error it raises ("none" if none), the items it appends to the shared
\* list and the page count it returns.
PageResult(raised, response) ==
    IF raised THEN [err |-> "ConnectionError", items |-> << >>, pages |-> 0]
    ELSE IF ~SchemaValid(response)
    THEN [err |-> "ValidationError", items |-> << >>, pages |-> 0]
    ELSE IF "review" \notin DOMAIN response
    THEN [err |-> "KeyError", items |-> << >>, pages |-> 0]
    ELSE [err |-> "none", items |-> response.review.trainer_items,
          pages |-> Ceil(response.review.total_filtered_items,
                         response.review.per_page_limit)]

\* ------------------------------------------------------- the dedup filter
\* The identifiers read from the wrong column (row[1]).
ExistingIds_WrongColumn(rows) == [i \in 1 .. Len(rows) |-> rows[i][2]]

\* [row[0] for row in reader]
ExistingIds(rows) == [i \in 1 .. Len(rows) |-> rows[i][1]]

\* [vocab_item for vocab_item in vocabulary if str(vocab_item["id"]) not in existing_ids]
NotExisting(voc, existing_ids) ==
    LET IsNew(vocab_item) == Str(vocab_item.id) \notin Range(existing_ids)
    IN SelectSeq(voc, IsNew)

\* select_new_vocabulary: the except branch copies the list untouched.
select_new_vocabulary(voc, exists, rows) ==
    IF exists THEN NotExisting(voc, ExistingIds(rows)) ELSE voc

\* ---------------------------------------------------------- the csv file
\* str.replace(char, "")
Replace(text, char) ==
    LET Keep(c) == c # char
    IN SelectSeq(text, Keep)

\* Only the closing parenthesis replaced.
CleanItem_ClosingOnly(vocab_item) ==
    [vocab_item EXCEPT !.l2_text = Replace(@, ")")]

\* The two replace calls of write_csv on one item.
CleanItem(vocab_item) ==
    [vocab_item EXCEPT !.l2_text = Replace(Replace(@, ")"), "(")]

\* What csv.writer makes of a value: str() of it.
CsvStr(fieldname, value) == IF fieldname = "id" THEN Str(value) ELSE value

\* DictWriter._dict_to_list with extrasaction="ignore" and the default
\* restval "": rowdict.get(key, "") for the fieldnames, in their order.
DictToList(rowdict) ==
    [i \in 1 .. Len(csv_fieldnames) |->
        IF csv_fieldnames[i] \in DOMAIN rowdict
        THEN CsvStr(csv_fieldnames[i], rowdict[csv_fieldnames[i]])
        ELSE << >>]

\* The file opened with 'w' instead of 'a'.
AppendRows_Truncate(rows, new_rows) == new_rows

\* open(csv_filename, 'a') and the rows that reached the file.
AppendRows(rows, new_rows) == rows \o new_rows

\* The items write_csv finds without an l2_text key.
MissingL2(voc) == { i \in 1 .. Len(voc) : "l2_text" \notin DOMAIN voc[i] }

\* ------------------------------------------------------ the media service
\* What one GET of a media url can bring back: the asset ("ok"), the body
\* of a non-success answer such as a 404 ("bad_status"), or an exception of
\* requests.get ("error").  The service fails, and not every time, for the
\* urls named here only: one image with either failure, one sound with an
\* exception.
BadStatusUrls == { media_urls("image", << "a" >>) }

ErrorUrls == { media_urls("image", << "a" >>), media_urls("audio", << "b" >>) }

MediaStatuses(url) ==
    { "ok" } \cup (IF url \in BadStatusUrls THEN { "bad_status" } ELSE { })
             \cup (IF url \in ErrorUrls THEN { "error" } ELSE { })

Content(status, url) ==
    IF status = "ok" THEN << "asset:" >> \o url ELSE << "error page:" >> \o url

NoFile == [exists |-> FALSE, data |-> << >>]

\* os.path.isfile of the bare file name, outside media_directory.
IsFile_Never(files, filename) == FALSE

\* os.path.isfile(media_path)
IsFile(files, filename) == files[filename].exists

MediaId(vocab_item, media_type) == vocab_item[media_id_fields(media_type)]

\* download_media_item up to its first suspension: the coroutine of item i
\* returns at once when the file exists and otherwise hands requests.get to
\* the executor.
StartItem(vocab_item, media_type, files) ==
    LET media_filename == media_filenames(media_type, MediaId(vocab_item, media_type))
        file_exists == IsFile(files, media_filename)
    IN [st |-> IF file_exists THEN "done" ELSE "queued",
        existed |-> file_exists,
        status |-> "none",
        result |-> IF file_exists THEN << media_filename, file_exists >> ELSE << >>]

\* The results paired with the items from the other end of the list.
RewriteFields_Reversed(voc, results, media_type) ==
    [i \in 1 .. Len(voc) |->
        LET entry == media_entries(media_type, results[Len(voc) + 1 - i][1])
            field == media_csv_fields(media_type)
        IN IF field \in DOMAIN voc[i]
           THEN [voc[i] EXCEPT ![field] = entry]
           ELSE voc[i] @@ (field :> entry)]

\* for vocab_item, filename_tuple in zip(vocabulary, results): ...
RewriteFields(voc, results, media_type) ==
    [i \in 1 .. Len(voc) |->
        LET entry == media_entries(media_type, results[i][1])
            field == media_csv_fields(media_type)
        IN IF field \in DOMAIN voc[i]
           THEN [voc[i] EXCEPT ![field] = entry]
           ELSE voc[i] @@ (field :> entry)]

\* ------------------------------------------------------------------- Init
NoError == [in |-> "none", type |-> "none"]

Init ==
    /\ remote \in Datasets
    /\ limit \in PerPageLimits
    /\ pc = "start"
    /\ search_page = 0
    /\ ptask = [p \in PageNumbers |-> IdlePage]
    /\ num_pages = 0
    /\ fetched = << >>
    /\ vocabulary = << >>
    /\ kind = 1
    /\ mtask = << >>
    /\ csv_exists = FALSE
    /\ csv_rows = << >>
    /\ disk = [f \in MediaFiles |-> NoFile]
    /\ err = NoError
    /\ csv_start = [exists |-> FALSE, rows |-> << >>]
    /\ disk_start = [f \in MediaFiles |-> NoFile]
    /\ wrote = << >>
    /\ gets = 0
    /\ prev_done = FALSE

\* The process ends, by the end of __main__ ("done") or by an uncaught
\* exception ("aborted"): what it held in memory is gone, the files stay.
Exit(status, exception) ==
    /\ pc' = status
    /\ err' = exception
    /\ search_page' = 0
    /\ ptask' = [p \in PageNumbers |-> IdlePage]
    /\ num_pages' = 0
    /\ fetched' = << >>
    /\ vocabulary' = << >>
    /\ kind' = 1
    /\ mtask' = << >>

\* ---------------------------------------------------------- the collector
\* get_babbel_vocabulary up to its first suspension: page 1 is handed to
\* the executor.
GetBabbelVocabulary ==
    /\ pc = "start"
    /\ pc' = "page1"
    /\ vocabulary' = << >>
    /\ ptask' = [ptask EXCEPT ![1].st = "queued"]
    /\ UNCHANGED << remote, limit, search_page, num_pages, fetched, kind,
                    mtask, csv_exists, csv_rows, disk, err, csv_start,
                    disk_start, wrote, gets, prev_done >>

\* handle_request, first statement, in a worker thread.
HandleRequestSet(p) ==
    /\ pc \in { "page1", "pages" }
    /\ ptask[p].st = "queued"
    /\ search_page' = p
    /\ ptask' = [ptask EXCEPT ![p].st = "set"]
    /\ UNCHANGED << remote, limit, pc, num_pages, fetched, vocabulary,
                    kind, mtask, csv_exists, csv_rows, disk, err, csv_start,
                    disk_start, wrote, gets, prev_done >>

\* handle_request, second statement: requests.get reads the shared
\* search_params and sends the query for the page it finds there.
HandleRequestGet(p) ==
    /\ pc \in { "page1", "pages" }
    /\ ptask[p].st = "set"
    /\ ptask' = [ptask EXCEPT ![p].st = "sent", ![p].param = search_page]
    /\ UNCHANGED << remote, limit, pc, search_page, num_pages, fetched,
                    vocabulary, kind, mtask, csv_exists, csv_rows, disk, err,
                    csv_start, disk_start, wrote, gets, prev_done >>

\* The worker's future resolves with what requests.get got for the page it
\* asked for: an answer of the service, or an exception.
Answered(t) ==
    IF t.param \in FailingPages
    THEN { [t EXCEPT !.resp = Response(k, t.param)] : k \in ResponseKinds }
         \cup { [t EXCEPT !.raised = TRUE] }
    ELSE { [t EXCEPT !.resp = Response("ok", t.param)] }

\* get_babbel_vocabulary_page(1, ...) resumes, and get_babbel_vocabulary
\* with it: an exception is left to propagate; otherwise the later pages
\* are handed to the executor, or the list is returned when there is none.
ReceivePage1 ==
    /\ pc = "page1"
    /\ ptask[1].st = "sent"
    /\ \E t \in Answered(ptask[1]) :
       LET r == PageResult(t.raised, t.resp)
       IN IF r.err # "none"
          THEN /\ ptask' = [ptask EXCEPT ![1] = [t EXCEPT !.st = "failed", !.err = r.err]]
               /\ UNCHANGED << pc, vocabulary, num_pages, fetched >>
          ELSE /\ vocabulary' = vocabulary \o r.items
               /\ num_pages' = r.pages
               /\ IF r.pages > 1
                  THEN /\ ptask' = [p \in PageNumbers |->
                                      IF p = 1 THEN [t EXCEPT !.st = "done"]
                                      ELSE IF p \in LaterPages(r.pages)
                                      THEN [ptask[p] EXCEPT !.st = "queued"]
                                      ELSE ptask[p]]
                       /\ pc' = "pages"
                       /\ fetched' = fetched
                  ELSE /\ ptask' = [ptask EXCEPT ![1] = [t EXCEPT !.st = "done"]]
                       /\ pc' = "dedup"
                       /\ fetched' = vocabulary'
    /\ UNCHANGED << remote, limit, search_page, kind, mtask, csv_exists,
                    csv_rows, disk, err, csv_start, disk_start, wrote, gets,
                    prev_done >>

\* get_babbel_vocabulary_page(p, ...) of the gathered batch resumes.
ReceivePage_Prepend(p) ==
    /\ pc = "pages"
    /\ p # 1
    /\ ptask[p].st = "sent"
    /\ \E t \in Answered(ptask[p]) :
       LET r == PageResult(t.raised, t.resp)
       IN IF r.err # "none"
          THEN /\ ptask' = [ptask EXCEPT ![p] = [t EXCEPT !.st = "failed", !.err = r.err]]
               /\ vocabulary' = vocabulary
          ELSE /\ ptask' = [ptask EXCEPT ![p] = [t EXCEPT !.st = "done"]]
               /\ vocabulary' = r.items \o vocabulary
    /\ UNCHANGED << remote, limit, pc, search_page, num_pages, fetched,
                    kind, mtask, csv_exists, csv_rows, disk, err, csv_start,
                    disk_start, wrote, gets, prev_done >>

ReceivePage(p) ==
    /\ pc = "pages"
    /\ p # 1
    /\ ptask[p].st = "sent"
    /\ \E t \in Answered(ptask[p]) :
       LET r == PageResult(t.raised, t.resp)
       IN IF r.err # "none"
          THEN /\ ptask' = [ptask EXCEPT ![p] = [t EXCEPT !.st = "failed", !.err = r.err]]
               /\ vocabulary' = vocabulary
          ELSE /\ ptask' = [ptask EXCEPT ![p] = [t EXCEPT !.st = "done"]]
               /\ vocabulary' = vocabulary \o r.items
    /\ UNCHANGED << remote, limit, pc, search_page, num_pages, fetched,
                    kind, mtask, csv_exists, csv_rows, disk, err, csv_start,
                    disk_start, wrote, gets, prev_done >>

\* asyncio.gather with return_exceptions=True: the batch resolves once
\* every page has returned or raised, and the collector goes on.
PagesGathered_ReturnExceptions ==
    /\ pc = "pages"
    /\ \A p \in LaterPages(num_pages) : ptask[p].st \in { "done", "failed" }
    /\ pc' = "dedup"
    /\ fetched' = vocabulary
    /\ UNCHANGED << remote, limit, search_page, ptask, num_pages,
                    vocabulary, kind, mtask, csv_exists, csv_rows, disk, err,
                    csv_start, disk_start, wrote, gets, prev_done >>

\* asyncio.gather of the later pages resolves: every page has returned.
PagesGathered ==
    /\ pc = "pages"
    /\ \A p \in LaterPages(num_pages) : ptask[p].st = "done"
    /\ pc' = "dedup"
    /\ fetched' = vocabulary
    /\ UNCHANGED << remote, limit, search_page, ptask, num_pages,
                    vocabulary, kind, mtask, csv_exists, csv_rows, disk, err,
                    csv_start, disk_start, wrote, gets, prev_done >>

\* The exception of a page handed on only once every page of the batch has
\* returned or raised.
PagesRaise_WhenResolved ==
    /\ pc \in { "page1", "pages" }
    /\ \A q \in PageNumbers : ptask[q].st \in { "none", "done", "failed" }
    /\ \E p \in PageNumbers :
          /\ ptask[p].st = "failed"
          /\ Exit("aborted", [in |-> "get_babbel_vocabulary_page", type |-> ptask[p].err])
    /\ UNCHANGED << remote, limit, csv_exists, csv_rows, disk, csv_start,
                    disk_start, wrote, gets, prev_done >>

\* The exception of a page (of page 1, or handed on by asyncio.gather with
\* return_exceptions=False) leaves get_babbel_vocabulary and
\* run_until_complete uncaught: the run ends.
PagesRaise ==
    /\ pc \in { "page1", "pages" }
    /\ \E p \in PageNumbers :
          /\ ptask[p].st = "failed"
          /\ Exit("aborted", [in |-> "get_babbel_vocabulary_page", type |-> ptask[p].err])
    /\ UNCHANGED << remote, limit, csv_exists, csv_rows, disk, csv_start,
                    disk_start, wrote, gets, prev_done >>

\* --------------------------------------------------------------- __main__
\* Without the test of line 180: the media batches and write_csv run on the
\* empty list too.
SelectNewVocabulary_NoGuard ==
    /\ pc = "dedup"
    /\ vocabulary' = select_new_vocabulary(vocabulary, csv_exists, csv_rows)
    /\ pc' = "download"
    /\ kind' = 1
    /\ UNCHANGED << remote, limit, search_page, ptask, num_pages, fetched,
                    mtask, csv_exists, csv_rows, disk, err, csv_start,
                    disk_start, wrote, gets, prev_done >>

\* vocabulary = select_new_vocabulary(vocabulary); if vocabulary: ...;
\* with nothing new the program ends.
SelectNewVocabulary ==
    /\ pc = "dedup"
    /\ LET new_vocabulary == select_new_vocabulary(vocabulary, csv_exists, csv_rows)
       IN IF new_vocabulary # << >>
          THEN /\ vocabulary' = new_vocabulary
               /\ pc' = "download"
               /\ kind' = 1
               /\ UNCHANGED << search_page, ptask, num_pages, fetched, mtask, err >>
          ELSE Exit("done", NoError)
    /\ UNCHANGED << remote, limit, csv_exists, csv_rows, disk, csv_start,
                    disk_start, wrote, gets, prev_done >>

\* ------------------------------------------------------ the media batches
\* download_media: the coroutines of one media type are gathered; each runs
\* to its first suspension before any worker's answer is handled.
StartBatch ==
    /\ pc = "download"
    /\ mtask' = [i \in 1 .. Len(vocabulary) |->
                    StartItem(vocabulary[i], MediaTypes[kind], disk)]
    /\ pc' = "gather"
    /\ UNCHANGED << remote, limit, search_page, ptask, num_pages, fetched,
                    vocabulary, kind, csv_exists, csv_rows, disk, err,
                    csv_start, disk_start, wrote, gets, prev_done >>

\* The worker's requests.get(media_url) returns and download_media_item
\* resumes: an exception of requests.get is raised; any answer is written
\* to the file, whatever its status code, and the tuple is returned.
MediaStore(i) ==
    /\ pc = "gather"
    /\ i \in DOMAIN mtask
    /\ mtask[i].st = "queued"
    /\ gets' = gets + 1
    /\ LET media_type == MediaTypes[kind]
           media_id == MediaId(vocabulary[i], media_type)
           media_filename == media_filenames(media_type, media_id)
       IN \E status \in MediaStatuses(media_urls(media_type, media_id)) :
          IF status = "error"
          THEN /\ mtask' = [mtask EXCEPT ![i].st = "failed", ![i].status = status]
               /\ disk' = disk
          ELSE /\ disk' = [disk EXCEPT ![media_filename] =
                              [exists |-> TRUE,
                               data |-> Content(status, media_urls(media_type, media_id))]]
               /\ mtask' = [mtask EXCEPT ![i].st = "done", ![i].status = status,
                                         ![i].result = << media_filename, mtask[i].existed >>]
    /\ UNCHANGED << remote, limit, pc, search_page, ptask, num_pages,
                    fetched, vocabulary, kind, csv_exists, csv_rows, err,
                    csv_start, disk_start, wrote, prev_done >>

\* The batch not awaited: the fields are rewritten from the file names of
\* the items while fetches of the batch may still be in flight.
BatchGathered_NoBarrier ==
    /\ pc = "gather"
    /\ \A i \in DOMAIN mtask : mtask[i].st \in { "queued", "done" }
    /\ vocabulary' = RewriteFields(vocabulary,
                                   [i \in DOMAIN mtask |->
                                       << media_filenames(MediaTypes[kind],
                                                          MediaId(vocabulary[i], MediaTypes[kind])),
                                          mtask[i].existed >>],
                                   MediaTypes[kind])
    /\ IF kind < Len(MediaTypes)
       THEN /\ kind' = kind + 1
            /\ pc' = "download"
       ELSE /\ kind' = kind
            /\ pc' = "write"
    /\ UNCHANGED << remote, limit, search_page, ptask, num_pages, fetched,
                    mtask, csv_exists, csv_rows, disk, err, csv_start,
                    disk_start, wrote, gets, prev_done >>

\* asyncio.gather of one media type resolves: the fields are rewritten and
\* the loop of download_media goes on to the next type, or returns.
BatchGathered ==
    /\ pc = "gather"
    /\ \A i \in DOMAIN mtask : mtask[i].st = "done"
    /\ vocabulary' = RewriteFields(vocabulary,
                                   [i \in DOMAIN mtask |-> mtask[i].result],
                                   MediaTypes[kind])
    /\ IF kind < Len(MediaTypes)
       THEN /\ kind' = kind + 1
            /\ pc' = "download"
       ELSE /\ kind' = kind
            /\ pc' = "write"
    /\ UNCHANGED << remote, limit, search_page, ptask, num_pages, fetched,
                    mtask, csv_exists, csv_rows, disk, err, csv_start,
                    disk_start, wrote, gets, prev_done >>

\* The exception of an item caught and dropped: __main__ goes on to
\* write_csv.
BatchRaise_Swallowed ==
    /\ pc = "gather"
    /\ \E i \in DOMAIN mtask : mtask[i].st = "failed"
    /\ pc' = "write"
    /\ UNCHANGED << remote, limit, search_page, ptask, num_pages, fetched,
                    vocabulary, kind, mtask, csv_exists, csv_rows, disk, err,
                    csv_start, disk_start, wrote, gets, prev_done >>

\* asyncio.gather hands the exception of an item to download_media, which
\* does not catch it, and neither does __main__: the run ends.
BatchRaise ==
    /\ pc = "gather"
    /\ \E i \in DOMAIN mtask : mtask[i].st = "failed"
    /\ Exit("aborted", [in |-> "download_media_item", type |-> "ConnectionError"])
    /\ UNCHANGED << remote, limit, csv_exists, csv_rows, disk, csv_start,
                    disk_start, wrote, gets, prev_done >>

\* ------------------------------------------------------------- the writer
\* write_csv, the last statement of __main__: the cleanup loop raises
\* KeyError at the first item without l2_text, before the file is opened;
\* otherwise the file is opened for append and the rows are written, k of
\* them reaching the file when the process dies in between (all of them
\* when it does not).
WriteCsv ==
    /\ pc = "write"
    /\ IF MissingL2(vocabulary) # { }
       THEN /\ Exit("aborted", [in |-> "write_csv", type |-> "KeyError"])
            /\ UNCHANGED << csv_exists, csv_rows, wrote >>
       ELSE LET cleaned == [i \in 1 .. Len(vocabulary) |-> CleanItem(vocabulary[i])]
            IN \E k \in 0 .. Len(cleaned) :
                  /\ csv_exists' = TRUE
                  /\ wrote' = [i \in 1 .. k |-> DictToList(cleaned[i])]
                  /\ csv_rows' = AppendRows(csv_rows, wrote')
                  /\ IF k = Len(cleaned)
                     THEN Exit("done", NoError)
                     ELSE Exit("aborted", [in |-> "write_csv", type |-> "OSError"])
    /\ UNCHANGED << remote, limit, disk, csv_start, disk_start, gets,
                    prev_done >>

\* ----------------------------------------------------------- the next run
\* The program is started again, on the files the last run left.
StartRun ==
    /\ pc \in { "done", "aborted" }
    /\ pc' = "start"
    /\ err' = NoError
    /\ csv_start' = [exists |-> csv_exists, rows |-> csv_rows]
    /\ disk_start' = disk
    /\ wrote' = << >>
    /\ gets' = 0
    /\ prev_done' = (pc = "done")
    /\ UNCHANGED << remote, limit, search_page, ptask, num_pages, fetched,
                    vocabulary, kind, mtask, csv_exists, csv_rows, disk >>

Next ==
    \/ GetBabbelVocabulary
    \/ \E p \in PageNumbers : HandleRequestSet(p)
    \/ \E p \in PageNumbers : HandleRequestGet(p)
    \/ ReceivePage1
    \/ \E p \in PageNumbers : ReceivePage(p)
    \/ PagesGathered
    \/ PagesRaise
    \/ SelectNewVocabulary
    \/ StartBatch
    \/ \E i \in 1 .. MaxItems : MediaStore(i)
    \/ BatchGathered
    \/ BatchRaise
    \/ WriteCsv
    \/ StartRun

Spec == Init /\ [][Next]_vars

\* ============================================================= properties
IsPrefix(a, b) == Len(a) <= Len(b) /\ \A i \in 1 .. Len(a) : a[i] = b[i]

\* The first column of the csv file, as a list.
FirstColumn(rows) == [i \in 1 .. Len(rows) |-> rows[i][1]]

NoDuplicates(s) == \A i, j \in DOMAIN s : i # j => s[i] # s[j]

\* The file name of item i in the batch being gathered.
BatchFile(i) == media_filenames(MediaTypes[kind], MediaId(vocabulary[i], MediaTypes[kind]))

\* The page tasks whose GET has been sent.
Issued == { p \in PageNumbers : ptask[p].st \in { "sent", "done", "failed" } }

\* ceil(total_filtered_items / per_page_limit) for the service's dataset:
\* the least n with n * limit >= total.
PagesNeeded ==
    CHOOSE n \in 0 .. Len(remote) :
        /\ n * limit >= Len(remote)
        /\ \A m \in 0 .. (n - 1) : m * limit < Len(remote)

\* The envelope { review: { trainer_items, total_filtered_items,
\* per_page_limit, page } }.
Conforms(response) ==
    /\ "review" \in DOMAIN response
    /\ { "trainer_items", "total_filtered_items", "per_page_limit", "page" }
          \subseteq DOMAIN response.review

\* C1: a run that completes right after a completed run, on the same
\* dataset and on the files that run left, appends no row and issues no
\* media request.
C1_Idempotent ==
    (pc = "done" /\ prev_done) => (wrote = << >> /\ gets = 0)

\* C2: select_new_vocabulary returns the fetched items whose str(id) is not
\* in the first column of the export (no identifier at all when the file
\* does not exist), each of them once and in the order they were fetched;
\* an item is left out exactly when its identifier is there.
C2_DedupCorrect ==
    [][pc = "dedup" =>
        LET existing == IF csv_exists THEN Range(FirstColumn(csv_rows)) ELSE { }
            kept == { i \in DOMAIN vocabulary : Str(vocabulary[i].id) \notin existing }
            result == IF pc' = "download" THEN vocabulary' ELSE << >>
        IN /\ (pc' = "done") <=> (kept = { })
           /\ Len(result) = Cardinality(kept)
           /\ \E f \in [DOMAIN result -> DOMAIN vocabulary] :
                 /\ \A j \in DOMAIN result : f[j] \in kept /\ result[j] = vocabulary[f[j]]
                 /\ \A j, k \in DOMAIN result : j < k => f[j] < f[k]]_vars

\* C2 witness: the filter has run on an existing export and has kept some
\* of the fetched items and left out others.
C2_Witness ==
    /\ pc = "download" /\ kind = 1
    /\ csv_exists
    /\ vocabulary # << >>
    /\ Len(vocabulary) < Len(fetched)

\* C3: after a successful write on a file without duplicates, no
\* identifier occurs twice in the first column of the export.
C3_UniqueIds ==
    (pc = "done" /\ wrote # << >> /\ NoDuplicates(FirstColumn(csv_start.rows)))
        => NoDuplicates(FirstColumn(csv_rows))

\* C4: the rows the export held when the run started are an unchanged
\* prefix of the export at every later point of the run, whether the run
\* completes or aborts, and an existing file stays.
C4_AppendOnly ==
    /\ IsPrefix(csv_start.rows, csv_rows)
    /\ csv_start.exists => csv_exists
    /\ csv_rows = csv_start.rows \o wrote

\* C4 witness: a run that found rows in the export has appended some of its
\* rows and was cut short.
C4_Witness ==
    /\ pc = "aborted"
    /\ csv_start.rows # << >>
    /\ wrote # << >>

\* C5: a download_media_item called while its file exists returns
\* (filename, True) at once, issues no GET and leaves the file as it was;
\* so a file created by an earlier call is never requested again.
C5_CacheHit ==
    pc = "gather" =>
        \A i \in DOMAIN mtask :
            disk_start[BatchFile(i)].exists =>
                /\ mtask[i].st = "done"
                /\ mtask[i].result = << BatchFile(i), TRUE >>
                /\ mtask[i].status = "none"
                /\ disk[BatchFile(i)] = disk_start[BatchFile(i)]

\* C5 witness: in one batch, one item's file was there (left by an earlier
\* run) and another item's file has been fetched.
C5_Witness ==
    /\ pc = "gather"
    /\ \E i, j \in DOMAIN mtask :
          /\ disk_start[BatchFile(i)].exists
          /\ mtask[i].st = "done"
          /\ mtask[j].status = "ok"

\* C6: page 1 is requested first and alone; once it has answered, with
\* N = ceil(total / limit), the collector requests N - 1 further pages when
\* N > 1 and none otherwise, so a completed collection has sent exactly
\* 1 + (N - 1) requests; 95 items at 30 a page are 4 pages.
C6_PageAggregation ==
    /\ \A p \in Issued \ { 1 } : ptask[1].st = "done"
    /\ pc = "page1" => Issued \subseteq { 1 }
    /\ Cardinality(Issued \ { 1 }) <= (IF PagesNeeded > 1 THEN PagesNeeded - 1 ELSE 0)
    /\ pc \in { "dedup", "download", "gather", "write" } =>
          /\ num_pages = PagesNeeded
          /\ Cardinality(Issued) = 1 + (IF PagesNeeded > 1 THEN PagesNeeded - 1 ELSE 0)
    /\ Ceil(95, 30) = 4

\* C6 witness: a collection over three pages has completed.
C6_Witness ==
    /\ pc = "dedup"
    /\ PagesNeeded = 3
    /\ Cardinality(Issued) = 3

\* C7: once a page fetch has failed, the control flow never gets past the
\* collector, and the run that ends with the exception of a page has
\* appended no row, created no media file and issued no media request.
C7_NoWriteAfterPageFailure ==
    /\ (\E p \in PageNumbers : ptask[p].st = "failed") =>
          /\ pc \in { "page1", "pages" }
          /\ csv_rows = csv_start.rows /\ csv_exists = csv_start.exists
          /\ disk = disk_start /\ wrote = << >> /\ gets = 0
    /\ (pc = "aborted" /\ err.in = "get_babbel_vocabulary_page") =>
          /\ csv_rows = csv_start.rows /\ csv_exists = csv_start.exists
          /\ disk = disk_start /\ wrote = << >> /\ gets = 0

\* C7 witness: a later page came back without total_filtered_items while
\* another page of the batch had already been appended to the list.
C7_Witness ==
    /\ pc = "pages"
    /\ \E p, q \in PageNumbers :
          /\ p > 1 /\ ptask[p].st = "failed" /\ ptask[p].err = "ValidationError"
          /\ q > 1 /\ ptask[q].st = "done"

\* C8: a download_media_item whose GET raised or was answered with a
\* non-success status fails; it does not return its tuple.
C8_BadStatusFails ==
    \A i \in DOMAIN mtask :
        mtask[i].status \in { "bad_status", "error" } => mtask[i].st = "failed"

\* C9: a page whose answer does not conform to the envelope fails with a
\* validation error and adds nothing to the list.
C9_ValidationError ==
    \A p \in PageNumbers :
        (ptask[p].st \in { "done", "failed" } /\ ~ptask[p].raised
                                              /\ ~Conforms(ptask[p].resp))
            => (ptask[p].st = "failed" /\ ptask[p].err = "ValidationError")

\* The row of an item: its l2_text without parentheses, projected on the
\* columns, a column the item lacks being empty.
ProjectedRow(item) ==
    [c \in 1 .. Len(csv_fieldnames) |->
        LET f == csv_fieldnames[c]
        IN IF f \notin DOMAIN item THEN << >>
           ELSE IF f = "id" THEN Str(item.id)
           ELSE IF f = "l2_text"
           THEN SelectSeq(item.l2_text, LAMBDA ch : ch \notin { "(", ")" })
           ELSE item[f]]

\* C10: write_csv raises no error over the items it is given, and the rows
\* it appends are the items projected on the columns, whichever column an
\* item lacks.
C10_ColumnProjection ==
    [][pc = "write" =>
        /\ err'.type # "KeyError"
        /\ \A i \in DOMAIN wrote' : wrote'[i] = ProjectedRow(vocabulary[i])]_vars

\* The column of a field in a row of the csv file.
Column(f) == CHOOSE c \in 1 .. Len(csv_fieldnames) : csv_fieldnames[c] = f

\* C11: the l2_text of every written row is the l2_text of its item with
\* every "(" and ")" taken out and the rest kept in order; the other text
\* columns are written as the item has them.
C11_TextCleanup ==
    [][pc = "write" =>
        \A i \in DOMAIN wrote' :
            LET item == vocabulary[i]
                pos == { n \in DOMAIN item.l2_text : item.l2_text[n] \notin { "(", ")" } }
                cell == wrote'[i][Column("l2_text")]
            IN /\ \A n \in DOMAIN cell : cell[n] \notin { "(", ")" }
               /\ Len(cell) = Cardinality(pos)
               /\ \A n \in DOMAIN cell :
                     cell[n] = item.l2_text[
                         CHOOSE m \in pos : Cardinality({ k \in pos : k < m }) = n - 1]
               /\ \A f \in { "l1_text", "info_text", "type" } :
                     f \in DOMAIN item => wrote'[i][Column(f)] = item[f]]_vars

\* C11 witness: the rows of "(p)" and of "r)s" have been written as "p"
\* and "rs".
C11_Witness ==
    /\ pc = "done"
    /\ \E i, j \in DOMAIN wrote :
          /\ wrote[i][Column("l2_text")] = << "p" >>
          /\ wrote[j][Column("l2_text")] = << "r", "s" >>

\* C12: the query a page task sends carries the task's own page number,
\* so the pages 1..N are each queried once.
C12_PageBinding ==
    \A p \in Issued : ptask[p].param = p

\* The reference a media type's field must hold for an item: the type's
\* template around the file name of the item's own media id.
OwnReference(item, media_type) ==
    media_entries(media_type, media_filenames(media_type, item[media_id_fields(media_type)]))

\* C13: once a media type's batch is over, the type's field of every item
\* holds the reference built from that item's own media id, in whatever
\* order the fetches of the batch completed.
C13_PositionalAttribution ==
    /\ (pc \in { "download", "gather" } /\ kind = 2) =>
          \A i \in DOMAIN vocabulary :
              vocabulary[i].image_path = OwnReference(vocabulary[i], "image")
    /\ pc = "write" =>
          \A i \in DOMAIN vocabulary :
              /\ vocabulary[i].image_path = OwnReference(vocabulary[i], "image")
              /\ vocabulary[i].audio_path = OwnReference(vocabulary[i], "audio")

\* C13 witness: both batches are over for three items whose first and last
\* have different image and sound ids.
C13_Witness ==
    /\ pc = "write"
    /\ Len(vocabulary) = 3
    /\ vocabulary[1].image_id # vocabulary[3].image_id
    /\ vocabulary[1].sound_id # vocabulary[3].sound_id
    /\ gets >= 4

\* C14: from the moment an item of a media batch has failed, no field is
\* rewritten, no further batch is started and no row is appended: the flow
\* stays in that batch until the exception ends the run, and the failed
\* item is not fetched again.
C14_BatchAllOrNothing ==
    [][(pc = "gather" /\ \E i \in DOMAIN mtask : mtask[i].st = "failed") =>
        /\ csv_rows' = csv_rows /\ csv_exists' = csv_exists /\ wrote' = << >>
        /\ \/ pc' = "aborted"
           \/ /\ pc' = "gather" /\ kind' = kind /\ vocabulary' = vocabulary
              /\ \A i \in DOMAIN mtask : mtask[i].st = "failed" => mtask'[i] = mtask[i]
        /\ \A i \in DOMAIN vocabulary :
              media_csv_fields(MediaTypes[kind]) \notin DOMAIN vocabulary[i]]_vars

\* C14 witness: an image fetch has failed after a sibling's file was
\* stored.
C14_Witness ==
    /\ pc = "gather" /\ kind = 1
    /\ \E i, j \in DOMAIN mtask : mtask[i].st = "failed" /\ mtask[j].status = "ok"

\* The units of a fan-out batch that have been handed out and have neither
\* returned nor raised.
PagesInFlight == { p \in PageNumbers : ptask[p].st \in { "queued", "set", "sent" } }

ItemsInFlight == { i \in DOMAIN mtask : mtask[i].st = "queued" }

Fetched(media_type) ==
    \A i \in DOMAIN vocabulary :
        /\ media_csv_fields(media_type) \in DOMAIN vocabulary[i]
        /\ disk[media_filenames(media_type, MediaId(vocabulary[i], media_type))].exists

\* Every page has returned and the dedup filter has run.
Collected ==
    /\ ptask[1].st = "done"
    /\ \A p \in PageNumbers : ptask[p].st \in { "none", "done" }
    /\ \A i \in DOMAIN vocabulary :
          \A n \in DOMAIN csv_rows : csv_rows[n][1] # Str(vocabulary[i].id)

\* C16: a media batch is started, and a media file requested, only after
\* every page has returned and the dedup filter has run, and for sounds
\* only after every image fetch has completed; a media type's field is
\* rewritten only once every fetch of the type has completed; the csv file
\* is touched only after the fetches of both types have all completed.
C16_PhaseOrder ==
    [][/\ ((pc = "download" /\ pc' = "gather") \/ gets' > gets) =>
             /\ Collected
             /\ kind = 2 => Fetched("image")
             /\ gets' > gets => pc = "gather"
       /\ (pc = "gather" /\ pc' # "aborted" /\ vocabulary' # vocabulary) =>
             /\ \A i \in DOMAIN mtask : mtask[i].st = "done"
             /\ \A i \in DOMAIN vocabulary : disk[BatchFile(i)].exists
       /\ (csv_rows' # csv_rows \/ csv_exists' # csv_exists) =>
             /\ pc = "write" /\ kind = 2
             /\ \A i \in DOMAIN mtask : mtask[i].st = "done"
             /\ Fetched("image") /\ Fetched("audio")]_vars

\* C16 witness: the rows of a run that issued four media requests are in
\* the csv file.
C16_Witness ==
    /\ pc = "done"
    /\ Len(wrote) >= 2
    /\ gets >= 4

\* The orders in which the pages of a set can complete.
Orders(S) ==
    { o \in [1 .. Cardinality(S) -> S] :
        \A a, b \in 1 .. Cardinality(S) : a # b => o[a] # o[b] }

\* The items of the answers of the pages of an order, block after block.
RECURSIVE Blocks(_)
Blocks(order) ==
    IF order = << >> THEN << >>
    ELSE ptask[Head(order)].resp.review.trainer_items \o Blocks(Tail(order))

\* C17: the list the collector returns is the items of the answer of page
\* 1, as answered, followed by one unbroken block for each later page, as
\* answered, the blocks in some order.
C17_PageOneFirst ==
    pc = "dedup" =>
        \E o \in Orders(LaterPages(num_pages)) : fetched = Blocks(<< 1 >> \o o)

\* C17 witness: page 3 has completed before page 2.
C17_Witness ==
    /\ pc = "dedup"
    /\ fetched = << Item1, Item3, Item2 >>

\* C18: when two fetches of one batch for the same file name, both started
\* with the file absent, have both completed, the file holds the asset of
\* that media id; and two different pairs of media type and media id never
\* share a file name.
C18_SameIdRace ==
    /\ pc = "gather" =>
          \A i, j \in DOMAIN mtask :
              (/\ i # j
               /\ BatchFile(i) = BatchFile(j)
               /\ ~mtask[i].existed /\ ~mtask[j].existed
               /\ mtask[i].st = "done" /\ mtask[j].st = "done") =>
                  disk[BatchFile(i)] =
                      [exists |-> TRUE,
                       data |-> Content("ok", media_urls(MediaTypes[kind],
                                                         MediaId(vocabulary[i], MediaTypes[kind])))]
    /\ \A t1, t2 \in { "image", "audio" } : \A m1, m2 \in MediaIds :
          << t1, m1 >> # << t2, m2 >> => media_filenames(t1, m1) # media_filenames(t2, m2)

\* The run now over follows a run that was aborted after it or a run
\* before it had left files behind.
AfterAbort ==
    /\ ~prev_done
    /\ csv_start.exists \/ \E f \in MediaFiles : disk_start[f].exists

\* C19: a run that completes after an aborted run has left the media files
\* it found on disk as they were, has appended rows only for identifiers
\* the csv file did not hold, and leaves a csv file holding the identifier
\* of every item of the service exactly once.
C19_RerunConverges ==
    (pc = "done" /\ AfterAbort) =>
        /\ \A f \in MediaFiles : disk_start[f].exists => disk[f] = disk_start[f]
        /\ \A i \in DOMAIN wrote : \A n \in DOMAIN csv_start.rows :
              csv_start.rows[n][1] # wrote[i][1]
        /\ \A k \in DOMAIN remote :
              Cardinality({ n \in DOMAIN csv_rows : csv_rows[n][1] = Str(remote[k].id) }) = 1

\* C20: when the identifier of every fetched item is in the csv file
\* already, or nothing was fetched, the run ends there: no media request,
\* no media file, and the csv file neither changed nor created.
C20_NoOpWhenNothingNew ==
    [][(/\ pc = "dedup"
        /\ \A i \in DOMAIN vocabulary :
              csv_exists /\ \E n \in DOMAIN csv_rows : csv_rows[n][1] = Str(vocabulary[i].id)) =>
        /\ pc' = "done"
        /\ gets = 0 /\ gets' = 0 /\ wrote' = << >>
        /\ disk' = disk
        /\ csv_rows' = csv_rows /\ csv_exists' = csv_exists]_vars

\* C20 witness: a run over a service with items has ended without a row
\* written, the csv file of the run before it as it was.
C20_Witness ==
    /\ pc = "done"
    /\ remote # << >>
    /\ wrote = << >>
    /\ gets = 0
    /\ csv_rows = csv_start.rows /\ csv_rows # << >>
    /\ disk = disk_start

=============================================================================
